---- MODULE Spec2Model ----
(***************************************************************************)
(* Model of pr_icon_differ.py: the webhook handler (Handler.render_POST),  *)
(* the bulk/debug entry (test_pr), the diff extractor (check_diff), the    *)
(* per-path loop of check_icons, the image publisher (upload_image) and    *)
(* the comment upsert (check_comments / post_comment).                     *)
(*                                                                         *)
(* Remote parties (diff resource, raw file host, image host, comment API)  *)
(* answer nondeterministically; the persistent cache (database.DBCore) and *)
(* the compare capability (icons.compare_two_icon_files) are not part of   *)
(* the source file and follow their documented contracts.                  *)
(***************************************************************************)
EXTENDS Integers, Sequences, FiniteSets, TLC

(* ------------------------------ bounds ------------------------------- *)

\* number of pipeline runs (deliveries or test_pr calls) of Spec
MaxRuns == 1
\* number of successive runs for one pull request of SpecRuns
MaxDeliveries == 3
\* number of lines of a diff text
MaxLines == 2
\* number of deliveries of SpecLive
MaxLiveRuns == 2
\* number of symbols of an X-Hub-Signature value of SpecSig
MaxSigLen == 4

(* --------------------------- value universes -------------------------- *)

\* "no value" (Python None, an absent file, the empty path '')
None == <<>>

\* repository-relative paths that diffs mention; the first two share a base name
Paths == {"icons/x.dmi", "mob/x.dmi", "README.md"}

\* content hashes of sub-images
Hashes == {1, 2}

\* logins that open pull requests
Logins == {"alice", "Spammer"}

\* str.lower() on the logins of the model
Lower(login) ==
    CASE login = "Spammer" -> "spammer"
      [] OTHER -> login

\* HTTP statuses a raw-file or diff GET answers with
FetchStatuses == {200, 404, 500}

(* --------------------------- configuration --------------------------- *)

github_user == "iconbot"
github_secret == "s1"
ignore_list == {"spammer"}
actions_to_check == {"opened", "synchronize"}

(* ------------------------- compare_secret ---------------------------- *)

\* hmac.new(secret, payload, sha1).hexdigest(): an injective two-symbol digest
hexdigest(secret, payload) == <<secret, payload>>

\* str.replace('sha1=', ''): every occurrence of the prefix is removed
strip_prefix(s) == SelectSeq(s, LAMBDA c : c # "sha1=")

\* a header is [present |-> BOOLEAN, value |-> sequence of symbols]
compare_secret(secret_to_compare, payload) ==
    IF ~secret_to_compare.present THEN FALSE
    ELSE strip_prefix(secret_to_compare.value) = hexdigest(github_secret, payload)

SignedHeader(secret, payload) ==
    [present |-> TRUE, value |-> <<"sha1=">> \o hexdigest(secret, payload)]

AbsentHeader == [present |-> FALSE, value |-> <<>>]

\* the signature headers deliveries carry
Headers == {AbsentHeader, SignedHeader("s1", "p1"), SignedHeader("s2", "p1")}

(* ----------------------------- check_diff ----------------------------- *)

\* the paths that end in the sprite extension
IsDmi(path) == path \in {"icons/x.dmi", "mob/x.dmi"}

\* re.sub(r'.*\/(.*)\.dmi', '\\1', icon): the base name without extension
i_name(icon) ==
    CASE icon = "icons/x.dmi" -> "x"
      [] icon = "mob/x.dmi" -> "x"
      [] OTHER -> icon

\* a diff line: git says whether the line holds the text
\* "diff --git a/<a> b/...", a is the path on its a/ side (any text of a line
\* without it), lead says whether other text stands before it on the line
\* (the "+" or " " of a line of a changed file that quotes a diff header)
Lines == [lead : BOOLEAN, git : BOOLEAN, a : Paths]

\* binary_regex.search(line): the pattern is looked for anywhere in the line
binary_regex_match(line) == line.git /\ IsDmi(line.a)

\* the loop of check_diff over the lines of the diff
RECURSIVE scan_diff(_)
scan_diff(lines) ==
    IF lines = <<>> THEN <<>>
    ELSE IF binary_regex_match(Head(lines))
         THEN <<Head(lines).a>> \o scan_diff(Tail(lines))
         ELSE scan_diff(Tail(lines))

\* check_diff: 404 gives None (a record with ok = FALSE), else the list
check_diff(status, text) ==
    IF status = 404 THEN [ok |-> FALSE, icons |-> <<>>]
    ELSE [ok |-> TRUE, icons |-> scan_diff(text)]

\* diff texts of at most MaxLines lines
DiffTexts == UNION {[1..n -> Lines] : n \in 0..MaxLines}

(* ------------------------- compare capability ------------------------- *)

\* one entry of the mapping compare_two_icon_files returns, in iteration
\* order: img_a / img_b are the hashes of the images, 0 when the image is absent
Entry(k, st, a, b) == [key |-> k, status |-> st, img_a |-> a, img_b |-> b]

\* the results the compare capability answers with: falsy, all Equal, one
\* Changed key, two Added keys with identical content, Equal then Removed
CompareResults ==
    { <<>>,
      <<Entry("k1", "Equal", 1, 1)>>,
      <<Entry("k1", "Changed", 1, 2)>>,
      <<Entry("k1", "Added", 0, 1), Entry("k2", "Added", 0, 1)>>,
      <<Entry("k1", "Equal", 2, 2), Entry("k2", "Removed", 2, 0)>> }

NonEqual(res) == {i \in DOMAIN res : res[i].status # "Equal"}

(* ------------------------------- state -------------------------------- *)

VARIABLES
    DEBUG,            \* the module's DEBUG flag (-d)
    DB,               \* persistent cache: hash -> url or None
    uploadLog,        \* per hash, the outcomes of the POSTs to the image host
    comments,         \* the issue's comments, in listing order
    postLog,          \* the write calls post_comment has issued
    scratch,          \* ./icon_dump: file name -> content or None
    run,              \* number of pipeline runs started
    pc,               \* position of the current run
    req,              \* the delivery (or test_pr call) being processed
    response,         \* HTTP status answered to the delivery, 0 before
    nresp,            \* number of responses written for the delivery
    raised,           \* an exception escaped the run
    calls,            \* kinds of calls the current run has issued
    posted,           \* POSTs to the image host of this run: <<hash, ok>>
    prev,             \* the run before the current one: inputs and uploads
    diff,             \* answer to requests.get(diff_url) while check_diff runs
    icons_with_diff,  \* list returned by check_diff
    idx,              \* position of the loop over icons_with_diff
    icon_path_a,      \* icon_path_a of the current iteration ('' is None)
    iters,            \* per iteration of this run: statuses, compare result
    keyIdx,           \* position of the loop over this_dict
    url_a,            \* url_a of the current key
    msg,              \* msg of the current icon
    msgs              \* msgs of the current run

vars == <<DEBUG, DB, uploadLog, comments, postLog, scratch, run, pc, req,
          response, nresp, raised, calls, posted, prev, diff, icons_with_diff,
          idx, icon_path_a, iters, keyIdx, url_a, msg, msgs>>

persistent == <<DEBUG, DB, uploadLog, comments, postLog, scratch>>
loopvars == <<icons_with_diff, idx, icon_path_a, iters, keyIdx, url_a, msg, msgs>>

Keys == {"k1", "k2"}

\* files of ./icon_dump
DmiFiles == {<<s, i_name(p), "dmi">> : s \in {"old", "new"}, p \in {q \in Paths : IsDmi(q)}}
PngFiles == {<<s, k, "png">> : s \in {"old", "new"}, k \in Keys}
LogFiles == {<<"log", i_name(p), "log">> : p \in {q \in Paths : IsDmi(q)}}
FileNames == DmiFiles \cup PngFiles \cup LogFiles

HeaderLine == <<"Icons with diff:">>

NoRequest ==
    [kind |-> "none", sig |-> AbsentHeader, payload |-> "p1", event |-> "none",
     action |-> "none", login |-> "none", send |-> FALSE]

\* what a run leaves for the next one to be compared with
RunSummary ==
    [req |-> req, icons |-> icons_with_diff, iters |-> iters, posted |-> posted,
     raised |-> raised]
NoRun ==
    [req |-> NoRequest, icons |-> <<>>, iters |-> <<>>, posted |-> {}, raised |-> FALSE]

Init ==
    /\ DEBUG \in BOOLEAN
    /\ DB = [h \in Hashes |-> None]
    /\ uploadLog = [h \in Hashes |-> <<>>]
    /\ comments = <<[id |-> 1, login |-> "alice", body |-> <<>>]>>
    /\ postLog = <<>>
    /\ scratch = [f \in FileNames |-> None]
    /\ run = 0
    /\ pc = "Idle"
    /\ req = NoRequest
    /\ response = 0
    /\ nresp = 0
    /\ raised = FALSE
    /\ calls = {}
    /\ posted = {}
    /\ prev = NoRun
    /\ diff = None
    /\ icons_with_diff = <<>>
    /\ idx = 0
    /\ icon_path_a = None
    /\ iters = <<>>
    /\ keyIdx = 0
    /\ url_a = None
    /\ msg = <<>>
    /\ msgs = <<HeaderLine>>

(* ------------------------ Handler.render_POST ------------------------- *)

\* the handler returns (or the framework answers for it): one response
Respond(code) ==
    /\ pc' = "Done"
    /\ response' = IF req.kind = "webhook" THEN code ELSE 0
    /\ nresp' = IF req.kind = "webhook" THEN nresp + 1 ELSE nresp

\* an exception that ends the process instead of one delivery
Raise_terminates ==
    /\ raised' = TRUE
    /\ pc' = "Terminated"
    /\ UNCHANGED <<response, nresp>>

\* an exception escapes: twisted answers the delivery with 500; a test_pr
\* process ends in sys.excepthook
Raise ==
    /\ raised' = TRUE
    /\ Respond(500)

\* locals of a run as a fresh call starts with them
FreshLocals ==
    /\ response' = 0
    /\ nresp' = 0
    /\ raised' = FALSE
    /\ calls' = {}
    /\ posted' = {}
    /\ prev' = RunSummary
    /\ diff' = None
    /\ icons_with_diff' = <<>>
    /\ idx' = 0
    /\ icon_path_a' = None
    /\ iters' = <<>>
    /\ keyIdx' = 0
    /\ url_a' = None
    /\ msg' = <<>>
    /\ msgs' = <<HeaderLine>>

\* a listener that hands a POST to a handler while another one runs
reactor_free_threaded == TRUE

\* render_POST does all its work before it returns its bytes, on the one
\* thread of the reactor: a POST is dispatched when no handler is running
reactor_free == pc \in {"Idle", "Done"}

\* a POST arrives at the listener
Deliver(sig, payload, event, action, login) ==
    /\ reactor_free
    /\ run' = run + 1
    /\ req' = [kind |-> "webhook", sig |-> sig, payload |-> payload, event |-> event,
               action |-> action, login |-> login, send |-> TRUE]
    /\ pc' = "Unverified"
    /\ FreshLocals
    /\ UNCHANGED persistent

\* render_POST, lines 248-252: the signature gate
Verify ==
    /\ pc = "Unverified"
    /\ IF compare_secret(req.sig, req.payload)
       THEN /\ pc' = "Verified"
            /\ UNCHANGED <<response, nresp>>
       ELSE Respond(401)
    /\ UNCHANGED <<persistent, run, req, diff, raised, calls, posted, prev, loopvars>>

\* render_POST, lines 253-257: the event type gate
CheckEvent ==
    /\ pc = "Verified"
    /\ IF req.event # "pull_request"
       THEN Respond(404)
       ELSE /\ pc' = "Recognized"
            /\ UNCHANGED <<response, nresp>>
    /\ UNCHANGED <<persistent, run, req, diff, raised, calls, posted, prev, loopvars>>

\* the author filter without .lower()
is_ignored_exact(login) == login \in ignore_list

\* line 265: pr_obj['user']['login'].lower() in config.ignore_list
is_ignored(login) == Lower(login) \in ignore_list

\* render_POST, lines 260-266: json.loads, the action and author filters
ParseBody ==
    /\ pc = "Recognized"
    /\ calls' = calls \cup {"parse"}
    /\ IF req.action \notin actions_to_check \/ is_ignored(req.login)
       THEN Respond(200)
       ELSE /\ pc' = "Diffing"
            /\ UNCHANGED <<response, nresp>>
    /\ UNCHANGED <<persistent, run, req, diff, raised, posted, prev, loopvars>>

(* ------------------------------ test_pr ------------------------------- *)

\* test_pr, lines 287-292: the bulk / debug entry looks the PR up
TestPr(send, status) ==
    /\ pc \in {"Idle", "Done"}
    /\ run' = run + 1
    /\ req' = [NoRequest EXCEPT !.kind = "test_pr", !.send = send]
    /\ FreshLocals
    /\ pc' = IF status = 404 THEN "Done" ELSE "Diffing"
    /\ UNCHANGED persistent

(* ----------------------- check_diff and dispatch ---------------------- *)

\* check_diff line 106: the diff resource answers
GetDiff(status, text) ==
    /\ pc = "Diffing"
    /\ calls' = calls \cup {"diff"}
    /\ diff' = [status |-> status, text |-> text]
    /\ pc' = "Scanning"
    /\ UNCHANGED <<persistent, run, req, response, nresp, raised, posted, prev,
                   loopvars>>

\* check_diff lines 107-116, then render_POST lines 273-278 / test_pr
\* lines 293-300
CheckDiff ==
    /\ pc = "Scanning"
    /\ diff' = None
    /\ LET r == check_diff(diff.status, diff.text)
       IN IF r.ok /\ r.icons # <<>>
          THEN /\ icons_with_diff' = r.icons
               /\ idx' = 1
               /\ pc' = "Fetching"
               /\ UNCHANGED <<response, nresp>>
          ELSE /\ Respond(200)
               /\ UNCHANGED <<icons_with_diff, idx>>
    /\ UNCHANGED <<persistent, run, req, raised, calls, posted, prev, icon_path_a,
                   iters, keyIdx, url_a, msg, msgs>>

(* ---------------------------- upload_image ---------------------------- *)

\* database.DBCore.get_url / set_url
DB_get_url(db, img_hash) == db[img_hash]
DB_set_url(db, img_hash, url) == [db EXCEPT ![img_hash] = url]

\* the URL the image host answers the n-th POST of a hash with
HostUrl(img_hash, n) == <<img_hash, n>>

\* a publisher that never finds the hash in the cache
has_link_never(db, img_hash) == FALSE

\* lines 123-125: has_link is not None
has_link(db, img_hash) == DB_get_url(db, img_hash) # None

\* a publisher that uploads on a miss but forgets DB.set_url
upload_image_nostore(db, ulog, img_hash, upload, hostOk) ==
    IF ~upload
    THEN [ret |-> None, raised |-> FALSE, posted |-> FALSE, db |-> db, ulog |-> ulog]
    ELSE IF has_link(db, img_hash)
    THEN [ret |-> DB_get_url(db, img_hash), raised |-> FALSE, posted |-> FALSE,
          db |-> db, ulog |-> ulog]
    ELSE [ret |-> IF hostOk THEN HostUrl(img_hash, Len(ulog[img_hash]) + 1) ELSE None,
          raised |-> ~hostOk, posted |-> TRUE, db |-> db,
          ulog |-> [ulog EXCEPT ![img_hash] = Append(@, hostOk)]]

\* upload_image(file, img_hash, upload) on cache db and upload log ulog;
\* hostOk says whether the host's answer carries a 'url'
upload_image(db, ulog, img_hash, upload, hostOk) ==
    IF ~upload
    THEN [ret |-> None, raised |-> FALSE, posted |-> FALSE, db |-> db, ulog |-> ulog]
    ELSE IF has_link(db, img_hash)
    THEN [ret |-> DB_get_url(db, img_hash), raised |-> FALSE, posted |-> FALSE,
          db |-> db, ulog |-> ulog]
    ELSE LET url == HostUrl(img_hash, Len(ulog[img_hash]) + 1)
             log2 == [ulog EXCEPT ![img_hash] = Append(@, hostOk)]
         IN IF hostOk
            THEN [ret |-> url, raised |-> FALSE, posted |-> TRUE,
                  db |-> DB_set_url(db, img_hash, url), ulog |-> log2]
            ELSE [ret |-> None, raised |-> TRUE, posted |-> TRUE,
                  db |-> db, ulog |-> log2]

(* ------------------------ check_icons: the loop ----------------------- *)

\* "![{key}]({url})" and "![]()"
Link(key, url) == <<key, url>>
EmptyImg == <<>>

icon_path_old(icon) == <<"old", i_name(icon), "dmi">>
icon_path_new(icon) == <<"new", i_name(icon), "dmi">>

\* a removal that leaves the file in place
os_remove_noop(fs, path) == fs

\* os.remove(path): the file is gone afterwards ('' raises OSError)
os_remove(fs, path) == IF path = None THEN fs ELSE [fs EXCEPT ![path] = None]

\* `break` in the place of `continue`: the loop over the icons is left
NextIcon_break ==
    /\ idx' = idx + 1
    /\ pc' = "Reporting"

\* `continue` or the end of a loop body: next icon, or leave the loop
NextIcon ==
    /\ idx' = idx + 1
    /\ pc' = IF idx < Len(icons_with_diff) THEN "Fetching" ELSE "Reporting"

\* lines 190-196: the head side answered 404
head_deleted(status_b) == status_b = 404

\* lines 177-196: both fetches, staging, the deletion short-circuit
FetchIcon(status_a, status_b) ==
    /\ pc = "Fetching"
    /\ LET icon == icons_with_diff[idx]
           path_a == IF status_a = 404 THEN None ELSE icon_path_old(icon)
           fs1 == IF status_a = 200
                  THEN [scratch EXCEPT ![icon_path_old(icon)] = <<run, idx, "a">>]
                  ELSE scratch
           fs2 == IF status_b = 200
                  THEN [fs1 EXCEPT ![icon_path_new(icon)] = <<run, idx, "b">>]
                  ELSE fs1
           it == [sa |-> status_a, sb |-> status_b, compared |-> FALSE,
                  res |-> <<>>, block |-> FALSE, read_a |-> None, read_b |-> None]
       IN /\ calls' = calls \cup {"fetch"}
          /\ iters' = Append(iters, it)
          /\ icon_path_a' = path_a
          /\ IF status_b # 200 /\ head_deleted(status_b)
             THEN /\ scratch' = os_remove(fs2, path_a)
                  /\ NextIcon
             ELSE /\ scratch' = fs2
                  /\ pc' = "Comparing"
                  /\ UNCHANGED idx
    /\ UNCHANGED <<DEBUG, DB, uploadLog, comments, postLog, run, req, diff, response,
                   nresp, raised, posted, prev, icons_with_diff, keyIdx, url_a,
                   msg, msgs>>

\* what the compare capability reads at a path: '' is the absent indicator
ReadFile(fs, path) == IF path = None THEN <<"absent">> ELSE fs[path]

\* lines 197-200: compare, skip on a falsy result, start the block
CompareIcons(res) ==
    /\ pc = "Comparing"
    /\ LET icon == icons_with_diff[idx]
       IN /\ calls' = calls \cup {"compare"}
          /\ iters' = [iters EXCEPT ![idx].compared = TRUE,
                                    ![idx].res = res,
                                    ![idx].read_a = ReadFile(scratch, icon_path_a),
                                    ![idx].read_b = ReadFile(scratch, icon_path_new(icon))]
          /\ IF res = <<>>
             THEN /\ NextIcon
                  /\ UNCHANGED <<keyIdx, msg>>
             ELSE /\ pc' = "KeyA"
                  /\ keyIdx' = 1
                  /\ msg' = <<<<"summary", icon>>, <<"thead">>, <<"tsep">>>>
                  /\ UNCHANGED idx
    /\ UNCHANGED <<persistent, run, req, diff, response, nresp, raised, posted, prev,
                   icons_with_diff, icon_path_a, url_a, msgs>>

(* ------------------- check_icons: the loop over keys ------------------ *)

this_dict == iters[idx].res

\* the next key of this_dict, or the end of the loop over keys
NextKey ==
    /\ keyIdx' = keyIdx + 1
    /\ pc' = IF keyIdx < Len(this_dict) THEN "KeyA" ELSE "EndIcon"

\* img.save(path) ... os.remove(path): what one side of a key does to
\* ./icon_dump around its upload_image call
StagePng(fs, path, img_hash, up) ==
    LET saved == [fs EXCEPT ![path] = <<"png", img_hash>>]
    IN IF up.raised \/ DEBUG THEN saved ELSE os_remove(saved, path)

\* lines 201-216: the Equal filter and the before image of one key
KeyA(hostOk) ==
    /\ pc = "KeyA"
    /\ LET e == this_dict[keyIdx]
           up == upload_image(DB, uploadLog, e.img_a, req.send, hostOk)
       IN IF e.status = "Equal"
          THEN /\ NextKey
               /\ UNCHANGED <<DB, uploadLog, scratch, calls, posted, url_a,
                              response, nresp, raised>>
          ELSE IF e.img_a # 0
          THEN /\ DB' = up.db
               /\ uploadLog' = up.ulog
               /\ scratch' = StagePng(scratch, <<"old", e.key, "png">>, e.img_a, up)
               /\ calls' = IF up.posted THEN calls \cup {"upload"} ELSE calls
               /\ posted' = IF up.posted THEN posted \cup {<<e.img_a, hostOk>>} ELSE posted
               /\ IF up.raised
                  THEN /\ Raise
                       /\ UNCHANGED <<url_a, keyIdx>>
                  ELSE /\ url_a' = Link(e.key, up.ret)
                       /\ pc' = "KeyB"
                       /\ UNCHANGED <<keyIdx, response, nresp, raised>>
          ELSE /\ url_a' = EmptyImg
               /\ pc' = "KeyB"
               /\ UNCHANGED <<DB, uploadLog, scratch, calls, posted, keyIdx,
                              response, nresp, raised>>
    /\ UNCHANGED <<DEBUG, comments, postLog, run, req, diff, prev, icons_with_diff, idx,
                   icon_path_a, iters, msg, msgs>>

\* a table row with the two image columns exchanged
Row_swapped(key, ua, ub, status) == <<"row", key, ub, ua, status>>

\* line 226: "{key}|{url_a}|{url_b}|{status}"
Row(key, ua, ub, status) == <<"row", key, ua, ub, status>>

\* lines 217-227: the after image of the key and its table row
KeyB(hostOk) ==
    /\ pc = "KeyB"
    /\ LET e == this_dict[keyIdx]
           up == upload_image(DB, uploadLog, e.img_b, req.send, hostOk)
       IN IF e.img_b # 0
          THEN /\ DB' = up.db
               /\ uploadLog' = up.ulog
               /\ scratch' = StagePng(scratch, <<"new", e.key, "png">>, e.img_b, up)
               /\ calls' = IF up.posted THEN calls \cup {"upload"} ELSE calls
               /\ posted' = IF up.posted THEN posted \cup {<<e.img_b, hostOk>>} ELSE posted
               /\ IF up.raised
                  THEN /\ Raise
                       /\ UNCHANGED <<msg, keyIdx>>
                  ELSE /\ msg' = Append(msg, Row(e.key, url_a, Link(e.key, up.ret), e.status))
                       /\ NextKey
                       /\ UNCHANGED <<response, nresp, raised>>
          ELSE /\ msg' = Append(msg, Row(e.key, url_a, EmptyImg, e.status))
               /\ NextKey
               /\ UNCHANGED <<DB, uploadLog, scratch, calls, posted, response, nresp,
                              raised>>
    /\ UNCHANGED <<DEBUG, comments, postLog, run, req, diff, prev, icons_with_diff, idx,
                   icon_path_a, iters, url_a, msgs>>

\* the block test off by one: a block of header and footer alone passes
block_has_rows_off(m) == Len(m) > 3

\* line 229: len(msg) > 4, msg being the closed block
block_has_rows(m) == Len(m) > 4

\* os.path.exists(path) and os.remove(path) of lines 235-238
remove_if_exists(fs, path) == IF path # None /\ fs[path] # None THEN os_remove(fs, path) ELSE fs

\* lines 228-238: close the block, keep it if it has rows, clean up
EndIcon ==
    /\ pc = "EndIcon"
    /\ LET icon == icons_with_diff[idx]
           closed == Append(msg, <<"end">>)
       IN /\ msg' = closed
          /\ msgs' = IF block_has_rows(closed) THEN Append(msgs, closed) ELSE msgs
          /\ iters' = [iters EXCEPT ![idx].block = block_has_rows(closed)]
          /\ scratch' = IF DEBUG
                        THEN [scratch EXCEPT ![<<"log", i_name(icon), "log">>] = <<"log">>]
                        ELSE remove_if_exists(remove_if_exists(scratch, icon_path_a),
                                              icon_path_new(icon))
    /\ NextIcon
    /\ UNCHANGED <<DEBUG, DB, uploadLog, comments, postLog, run, req, diff, response,
                   nresp, raised, calls, posted, prev, icons_with_diff, icon_path_a,
                   keyIdx, url_a>>

(* ------------------- check_comments and post_comment ------------------ *)

\* statuses the comment listing answers with
ListStatuses == {200, 500}

BotComments(cs) == {i \in DOMAIN cs : cs[i].login = github_user}

\* lines 138-140: the first listed comment whose login is the bot's
first_own(cs) ==
    IF BotComments(cs) = {} THEN 0
    ELSE CHOOSE i \in BotComments(cs) : \A j \in BotComments(cs) : i <= j

\* check_comments: the comment's url (its id here), 0 for None
check_comments(cs, listStatus) ==
    IF listStatus = 200 THEN first_own(cs) ELSE 0

\* lines 149-152: PATCH the found comment, else POST a new one
http_method(comment_id) == IF comment_id # 0 THEN "PATCH" ELSE "POST"

\* the comment API's answer to the write call
WriteStatus(method, writeOk) ==
    IF ~writeOk THEN 500 ELSE IF method = "POST" THEN 201 ELSE 200

\* post_comment: the write call it issues, and the issue's comments after it
post_comment(cs, body, listStatus, writeOk) ==
    LET comment_id == check_comments(cs, listStatus)
        method == http_method(comment_id)
        status == WriteStatus(method, writeOk)
        after == IF status \notin {200, 201} THEN cs
                 ELSE IF method = "PATCH"
                      THEN [cs EXCEPT ![comment_id].body = body]
                      ELSE Append(cs, [id |-> Len(cs) + 1, login |-> github_user,
                                       body |-> body])
    IN [call |-> [run |-> run, list |-> listStatus, found |-> comment_id,
                  method |-> method,
                  target |-> IF method = "PATCH" THEN comment_id ELSE 0,
                  status |-> status,
                  written |-> IF status \notin {200, 201} THEN 0
                              ELSE IF method = "PATCH" THEN comment_id ELSE Len(cs) + 1],
        comments |-> after]

\* a variant of post_comment_raises that raises on a refused write
post_comment_raises_on_refusal(status) == status \notin {200, 201}

\* lines 156-160: both branches of post_comment only log; a refused write
\* is neither raised to the caller nor sent again
post_comment_raises(status) == FALSE

\* line 239: send_message and len(msgs) > 1
should_post(send, ms) == send /\ Len(ms) > 1

\* lines 239-240, then the return of the handler (line 278)
Report(listStatus, writeOk) ==
    /\ pc = "Reporting"
    /\ IF should_post(req.send, msgs)
       THEN LET r == post_comment(comments, msgs, listStatus, writeOk)
            IN /\ comments' = r.comments
               /\ postLog' = Append(postLog, r.call)
               /\ calls' = calls \cup {"list", IF r.call.method = "PATCH" THEN "update" ELSE "create"}
               /\ IF post_comment_raises(r.call.status)
                  THEN Raise
                  ELSE Respond(200) /\ UNCHANGED raised
       ELSE /\ UNCHANGED <<comments, postLog, calls, raised>>
            /\ Respond(200)
    /\ UNCHANGED <<DEBUG, DB, uploadLog, scratch, run, req, diff, posted, prev,
                   loopvars>>

(* --------------------------- specification ---------------------------- *)

Events == {"pull_request", "push"}
Actions == {"opened", "synchronize", "closed"}

Next ==
    \/ /\ run < MaxRuns
       /\ \E sig \in Headers, event \in Events, action \in Actions, login \in Logins :
               Deliver(sig, "p1", event, action, login)
    \/ /\ run < MaxRuns
       /\ \E send \in BOOLEAN, status \in {200, 404} : TestPr(send, status)
    \/ Verify
    \/ CheckEvent
    \/ ParseBody
    \/ \E status \in FetchStatuses, text \in DiffTexts : GetDiff(status, text)
    \/ CheckDiff
    \/ \E status_a \in FetchStatuses, status_b \in FetchStatuses :
            FetchIcon(status_a, status_b)
    \/ \E res \in CompareResults : CompareIcons(res)
    \/ \E hostOk \in BOOLEAN : KeyA(hostOk)
    \/ \E hostOk \in BOOLEAN : KeyB(hostOk)
    \/ EndIcon
    \/ \E listStatus \in ListStatuses, writeOk \in BOOLEAN : Report(listStatus, writeOk)

Spec == Init /\ [][Next]_vars

(* Successive runs for one pull request: each delivery is a signed,       *)
(* actionable pull_request event whose diff names one sprite file and     *)
(* whose head side is present; the image host and the comment API answer  *)
(* freely.                                                                *)
OneIconDiff == <<[lead |-> FALSE, git |-> TRUE, a |-> "icons/x.dmi"]>>

NextRuns ==
    \/ /\ run < MaxDeliveries
       /\ Deliver(SignedHeader(github_secret, "p1"), "p1", "pull_request", "synchronize",
                  "alice")
    \/ /\ run < MaxDeliveries
       /\ TestPr(TRUE, 200)
    \/ Verify
    \/ CheckEvent
    \/ ParseBody
    \/ GetDiff(200, OneIconDiff)
    \/ CheckDiff
    \/ \E status_a \in {200, 404} : FetchIcon(status_a, 200)
    \/ \E res \in CompareResults : CompareIcons(res)
    \/ \E hostOk \in BOOLEAN : KeyA(hostOk)
    \/ \E hostOk \in BOOLEAN : KeyB(hostOk)
    \/ EndIcon
    \/ \E listStatus \in ListStatuses, writeOk \in BOOLEAN : Report(listStatus, writeOk)

SpecRuns == Init /\ [][NextRuns]_vars

(* Deliveries to the listener when any step of the handler may end in an   *)
(* uncaught error: json.loads on the body, the requests calls for the diff, *)
(* the sprite files, the image host and the comment API, the compare call  *)
(* and the scratch files all can raise, and render_POST catches nothing.   *)
(* Each call returns or raises, so a run that can take a step takes one.   *)
StepRaises ==
    /\ pc \in {"Recognized", "Diffing", "Scanning", "Fetching", "Comparing", "KeyA",
               "KeyB", "EndIcon", "Reporting"}
    /\ Raise
    /\ UNCHANGED <<persistent, run, req, diff, calls, posted, prev, loopvars>>

StepLive ==
    \/ Verify
    \/ CheckEvent
    \/ ParseBody
    \/ GetDiff(200, OneIconDiff)
    \/ CheckDiff
    \/ \E status_a \in {200, 404} : FetchIcon(status_a, 200)
    \/ \E res \in CompareResults : CompareIcons(res)
    \/ \E hostOk \in BOOLEAN : KeyA(hostOk)
    \/ \E hostOk \in BOOLEAN : KeyB(hostOk)
    \/ EndIcon
    \/ \E listStatus \in ListStatuses, writeOk \in BOOLEAN : Report(listStatus, writeOk)
    \/ StepRaises

NextLive ==
    \/ /\ run < MaxLiveRuns
       /\ Deliver(SignedHeader(github_secret, "p1"), "p1", "pull_request", "synchronize",
                  "alice")
    \/ StepLive

SpecLive == Init /\ [][NextLive]_vars /\ WF_vars(StepLive)

(* The signature gate alone: the first delivery after the listener started *)
(* carries any payload and any X-Hub-Signature value of at most MaxSigLen  *)
(* symbols, or none.                                                       *)
Secrets == {"s1", "s2"}
Payloads == {"p1", "p2"}
SigSymbols == {"sha1=", "x"} \cup Secrets \cup Payloads
SigValues == UNION {[1..n -> SigSymbols] : n \in 0..MaxSigLen}
SigHeaders == {AbsentHeader} \cup {[present |-> TRUE, value |-> v] : v \in SigValues}

NextSig ==
    \/ /\ pc = "Idle"
       /\ \E sig \in SigHeaders, payload \in Payloads :
               Deliver(sig, payload, "pull_request", "opened", "alice")
    \/ Verify

SpecSig == Init /\ [][NextSig]_vars

(* ------------------------------ claims -------------------------------- *)

CommentCalls == {"list", "create", "update"}
PipelineCalls == {"fetch", "compare", "upload"} \cup CommentCalls

\* C1: over any sequence of runs against the issue, the number of comments
\* authored by the bot identity never exceeds 1, whatever the listing,
\* create and update calls answer.
C1_AtMostOneBotComment == Cardinality(BotComments(comments)) <= 1

\* the gates of a delivery, read off the request itself
SignatureVerified == compare_secret(req.sig, req.payload)
Actionable ==
    /\ SignatureVerified
    /\ req.event = "pull_request"
    /\ req.action \in {"opened", "synchronize"}
    /\ Lower(req.login) \notin ignore_list

\* C2: for a delivery, the body is parsed only after the signature verified
\* and the event type is pull_request; the diff is retrieved only if moreover
\* the action is opened or synchronize and the lowercase author login is not
\* ignored; fetches, compare calls, uploads and comment calls are issued only
\* if moreover the diff extractor returned a non-empty list.
C2_CallsOnlyWhenPermitted ==
    req.kind = "webhook" =>
        /\ "parse" \in calls => SignatureVerified /\ req.event = "pull_request"
        /\ "diff" \in calls => Actionable
        /\ calls \cap PipelineCalls # {} => Actionable /\ icons_with_diff # <<>>
        /\ pc \in {"Diffing", "Scanning", "Fetching", "Comparing", "KeyA", "KeyB", "EndIcon",
                   "Reporting"} => Actionable

\* C2 witness: a delivery that passed every gate and reached the comment API
C2_Witness ==
    /\ req.kind = "webhook"
    /\ pc = "Done"
    /\ {"parse", "diff", "fetch", "compare", "upload", "list", "create"} \subseteq calls

\* C3: every POST gets exactly one response; its status is 401 for a bad or
\* absent signature, 404 for a verified event that is not pull_request, and
\* 200 in all other cases.
C3_ResponseStatus ==
    (req.kind = "webhook" /\ pc = "Done") =>
        /\ nresp = 1
        /\ response = IF ~SignatureVerified THEN 401
                      ELSE IF req.event # "pull_request" THEN 404
                      ELSE 200

\* C4 as stated: for any content hash the image host is POSTed at most once
\* over the cache's lifetime.
C4_UploadAtMostOnce == \A h \in Hashes : Len(uploadLog[h]) <= 1

\* C4 amended: for any content hash, once a POST to the image host has
\* answered with a url, the hash is never POSTed again (so at most one POST
\* per hash succeeds; POSTs that failed may precede it).
C4_NoUploadAfterSuccess ==
    \A h \in Hashes : \A i \in DOMAIN uploadLog[h] :
        uploadLog[h][i] => i = Len(uploadLog[h])

\* C4 witness: a hash whose POST failed in one run, succeeded in the next and
\* was presented again, without a POST, by a third run
C4_Witness ==
    /\ run = 3
    /\ pc = "Done"
    /\ uploadLog[1] = <<FALSE, TRUE>>
    /\ posted = {}
    /\ \E i \in DOMAIN iters : iters[i].block /\ iters[i].res[1].img_b = 1

\* the upload_image call the next step makes, if any
UploadCallA == pc = "KeyA" /\ this_dict[keyIdx].status # "Equal" /\ this_dict[keyIdx].img_a # 0
UploadCallB == pc = "KeyB" /\ this_dict[keyIdx].img_b # 0
CallHash == IF pc = "KeyA" THEN this_dict[keyIdx].img_a ELSE this_dict[keyIdx].img_b

\* the call returned u: it is the url of the link rendered from it
Returned(u) ==
    /\ ~raised'
    /\ IF pc = "KeyA"
       THEN url_a' = Link(this_dict[keyIdx].key, u)
       ELSE msg'[Len(msg')][4] = Link(this_dict[keyIdx].key, u)

OtherLogsUnchanged(h) == \A g \in Hashes \ {h} : uploadLog'[g] = uploadLog[g]

\* at most one POST per hash in a run
OneUploadPerRun == \A h \in Hashes : Cardinality({o \in BOOLEAN : <<h, o>> \in posted}) <= 1

\* C5 as stated: on a hit upload_image returns the cached URL, POSTs nothing
\* and leaves the cache unchanged; on a miss it POSTs once, stores the
\* returned URL under the hash and returns it.
C5_PublisherContract ==
    [][ (UploadCallA \/ UploadCallB) =>
          LET h == CallHash
          IN IF DB[h] # None
             THEN Returned(DB[h]) /\ uploadLog' = uploadLog /\ DB' = DB
             ELSE /\ Len(uploadLog'[h]) = Len(uploadLog[h]) + 1
                  /\ OtherLogsUnchanged(h)
                  /\ DB'[h] # None
                  /\ DB' = [DB EXCEPT ![h] = DB'[h]]
                  /\ Returned(DB'[h])
      ]_vars

\* C5 amended: with uploading enabled, a hit returns the cached URL, POSTs
\* nothing and leaves the cache unchanged; a miss POSTs exactly once and, when
\* the host's answer carries a url, stores that url under the hash and returns
\* it, while an answer without a url stores nothing and the call raises; with
\* uploading disabled (send_message false) the call returns None and neither
\* reads the cache nor POSTs. A run never POSTs a hash twice.
C5_PublisherContractAmended ==
    [][ /\ (UploadCallA \/ UploadCallB) =>
             LET h == CallHash
             IN IF ~req.send
                THEN Returned(None) /\ uploadLog' = uploadLog /\ DB' = DB
                ELSE IF DB[h] # None
                THEN Returned(DB[h]) /\ uploadLog' = uploadLog /\ DB' = DB
                ELSE /\ Len(uploadLog'[h]) = Len(uploadLog[h]) + 1
                     /\ OtherLogsUnchanged(h)
                     /\ IF uploadLog'[h][Len(uploadLog'[h])]
                        THEN /\ DB'[h] = HostUrl(h, Len(uploadLog'[h]))
                             /\ DB' = [DB EXCEPT ![h] = DB'[h]]
                             /\ Returned(DB'[h])
                        ELSE DB' = DB /\ raised'
        /\ OneUploadPerRun'
      ]_vars

\* C5 witness: two sub-images with the same hash in one run, one POST, and
\* both rows link the URL that POST returned
C5_Witness ==
    /\ pc = "EndIcon"
    /\ uploadLog[1] = <<TRUE>>
    /\ posted = {<<1, TRUE>>}
    /\ Len(msg) = 5
    /\ msg[4] = Row("k1", EmptyImg, Link("k1", HostUrl(1, 1)), "Added")
    /\ msg[5] = Row("k2", EmptyImg, Link("k2", DB[1]), "Added")

\* C6 as stated: a path whose base-side or head-side fetch answers a status
\* other than 200 and 404 is skipped: compare is not invoked for it and no
\* block is produced for it.
C6_ErrorPathSkipped ==
    \A i \in DOMAIN iters :
        (iters[i].sa \notin {200, 404} \/ iters[i].sb \notin {200, 404})
            => ~iters[i].compared /\ ~iters[i].block

\* content staged by iteration i of the current run that is still in scratch
StagedBy(i) == {f \in DmiFiles : scratch[f] # None /\ scratch[f][1] = run /\ scratch[f][2] = i}

\* C7: for a path whose head-side fetch answers 404, whatever the base side
\* answered, compare is not invoked, no block is produced, and nothing the
\* iteration staged is left in scratch when the next path is processed.
C7_DeletedHeadSkipped ==
    \A i \in DOMAIN iters :
        iters[i].sb = 404 =>
            /\ ~iters[i].compared
            /\ ~iters[i].block
            /\ StagedBy(i) = {}
            /\ (i = Len(iters) /\ iters[i].sa # 404)
                   => scratch[icon_path_old(icons_with_diff[i])] = None

\* C7 witness: the first path had its base side staged (200) and its head
\* side deleted (404), and the loop has gone on to the second path
C7_Witness ==
    /\ Len(iters) = 2
    /\ iters[1].sa = 200
    /\ iters[1].sb = 404
    /\ pc = "Comparing"

\* C8: a comment API call is made only if some path yielded a non-Equal
\* entry; a path without non-Equal entries contributes no block; when every
\* compared path yields only Equal entries the aggregate has no block and no
\* comment call is made.
C8_CommentOnlyWithNonEqual ==
    /\ calls \cap CommentCalls # {} =>
          \E i \in DOMAIN iters : iters[i].compared /\ NonEqual(iters[i].res) # {}
    /\ \A i \in DOMAIN iters : NonEqual(iters[i].res) = {} => ~iters[i].block
    /\ Len(msgs) = 1 + Cardinality({i \in DOMAIN iters : iters[i].block})
    /\ (\A i \in DOMAIN iters : NonEqual(iters[i].res) = {}) =>
          Len(msgs) = 1 /\ calls \cap CommentCalls = {}

\* C8 witness: a delivery whose two paths were both compared and yielded
\* only Equal entries has returned without any comment call
C8_Witness ==
    /\ req.kind = "webhook"
    /\ pc = "Done"
    /\ Len(iters) = 2
    /\ \A i \in DOMAIN iters :
          iters[i].compared /\ iters[i].res # <<>> /\ NonEqual(iters[i].res) = {}
    /\ calls \cap CommentCalls = {}

\* C9 as stated: post_comment PATCHes the comment it found and issues no
\* create, else issues a create; two successive invocations that both write
\* therefore write the same comment id.
C9_SameCommentTwice ==
    /\ \A i \in DOMAIN postLog :
          IF postLog[i].found # 0
          THEN postLog[i].method = "PATCH" /\ postLog[i].target = postLog[i].found
          ELSE postLog[i].method = "POST"
    /\ \A i \in DOMAIN postLog : \A j \in DOMAIN postLog :
          (j = i + 1 /\ postLog[i].written # 0 /\ postLog[j].written # 0)
              => postLog[i].written = postLog[j].written

\* the post_comment invocation of run r, if it made one
PostOf(r) == {i \in DOMAIN postLog : postLog[i].run = r}
CommentCallFailed(c) == c.list # 200 \/ c.status \notin {200, 201}

\* the run before this one uploaded images and its comment call failed
PrevPartial ==
    /\ \E h \in Hashes : <<h, TRUE>> \in prev.posted
    /\ \E i \in PostOf(run - 1) : CommentCallFailed(postLog[i])

\* this run processes the event of the run before, unchanged
SameEvent ==
    /\ req = prev.req
    /\ icons_with_diff = prev.icons
    /\ Len(iters) = Len(prev.iters)
    /\ \A i \in DOMAIN iters :
          /\ iters[i].sa = prev.iters[i].sa
          /\ iters[i].sb = prev.iters[i].sb
          /\ iters[i].res = prev.iters[i].res

\* every call of this run succeeded
CallsSucceed ==
    /\ ~raised
    /\ \A p \in posted : p[2]
    /\ \E i \in PostOf(run) : ~CommentCallFailed(postLog[i])

\* C10 as stated: after a run that uploaded images but whose comment call
\* failed, a re-delivery of the same event whose calls succeed leaves exactly
\* one bot comment, its body the report of the event, and uploads no hash the
\* first run uploaded.
C10_RedeliveryConverges ==
    (pc = "Done" /\ PrevPartial /\ SameEvent /\ CallsSucceed) =>
        /\ Cardinality(BotComments(comments)) = 1
        /\ \A i \in BotComments(comments) : comments[i].body = msgs
        /\ \A h \in Hashes : <<h, TRUE>> \in prev.posted => \A o \in BOOLEAN : <<h, o>> \notin posted

\* C11: when the comment API refuses the write of a run (a status other
\* than 200/201), the step that issued it raises nothing, issues exactly that
\* one write, leaves the issue's comments as they were, and the webhook
\* caller is answered 200.
WriteRefused(c) == c.status \notin {200, 201}

C11_RefusedWriteIsLogged ==
    [][(pc = "Reporting" /\ Len(postLog') > Len(postLog)
            /\ WriteRefused(postLog'[Len(postLog')]))
        => /\ Len(postLog') = Len(postLog) + 1
           /\ comments' = comments
           /\ ~raised'
           /\ pc' = "Done"
           /\ (req.kind = "webhook" => response' = 200 /\ nresp' = 1)]_vars

C11_Witness ==
    /\ pc = "Done" /\ req.kind = "webhook" /\ response = 200
    /\ postLog # <<>> /\ postLog[Len(postLog)].run = run
    /\ WriteRefused(postLog[Len(postLog)])
    /\ postLog[Len(postLog)].method = "POST"

\* C12: check_diff returns exactly the a/-side paths of the lines that have
\* the form "diff --git a/<path ending in .dmi> b/...", in their order and
\* with duplicates, and nothing for any other line; without such a line the
\* result is the empty list, which differs from the result for a 404 answer.
HeaderForm(line) == ~line.lead /\ line.git /\ IsDmi(line.a)

HeaderPaths(text) ==
    LET sel == SelectSeq(text, HeaderForm)
    IN [i \in 1..Len(sel) |-> sel[i].a]

C12_DiffExtraction ==
    pc = "Scanning" =>
        LET r == check_diff(diff.status, diff.text)
        IN /\ r.ok = (diff.status # 404)
           /\ r.ok => r.icons = HeaderPaths(diff.text)

\* C13: the signature gate accepts the header "sha1=" followed by the
\* digest of the payload under the configured secret, and rejects that value
\* with anything appended, the digest under another secret, and an absent
\* header.
Accepted == req.kind = "webhook" /\ pc = "Verified"
Rejected == req.kind = "webhook" /\ pc = "Done" /\ response = 401

Appended(v, w) == Len(v) > Len(w) /\ SubSeq(v, 1, Len(w)) = w

C13_SignatureGate ==
    (Accepted \/ Rejected) =>
        LET good == SignedHeader(github_secret, req.payload)
        IN /\ req.sig = good => Accepted
           /\ (req.sig.present /\ Appended(req.sig.value, good.value)) => Rejected
           /\ (\E s \in Secrets \ {github_secret} :
                    req.sig = SignedHeader(s, req.payload)) => Rejected
           /\ ~req.sig.present => Rejected

\* C20: the signature gate accepts a header only if it is exactly "sha1="
\* followed by the digest of the payload under the configured secret.
C20_OnlyExactHeader ==
    Accepted => req.sig = SignedHeader(github_secret, req.payload)

\* C14: the body handed to the comment API is the header line followed by
\* one block for each compared path with a non-Equal entry, in the order of
\* the diff; a block is labelled with its path and holds one row for each
\* non-Equal key, in order, with the key, the published URL of the before
\* and of the after image (the empty placeholder for a missing side) and the
\* status; Equal entries give no row.
IsChange(e) == e.status # "Equal"

PublishedUrl(key, img_hash) == IF img_hash = 0 THEN <<>> ELSE <<key, DB[img_hash]>>

ExpectedRows(res) ==
    LET sel == SelectSeq(res, IsChange)
    IN [k \in 1..Len(sel) |->
            <<"row", sel[k].key, PublishedUrl(sel[k].key, sel[k].img_a),
              PublishedUrl(sel[k].key, sel[k].img_b), sel[k].status>>]

ExpectedBlock(i) ==
    <<<<"summary", icons_with_diff[i]>>, <<"thead">>, <<"tsep">>>>
        \o ExpectedRows(iters[i].res) \o <<<<"end">>>>

RECURSIVE ExpectedBlocks(_)
ExpectedBlocks(i) ==
    IF i > Len(iters) THEN <<>>
    ELSE IF iters[i].compared /\ SelectSeq(iters[i].res, IsChange) # <<>>
         THEN <<ExpectedBlock(i)>> \o ExpectedBlocks(i + 1)
         ELSE ExpectedBlocks(i + 1)

ReportWritten ==
    /\ pc = "Done" /\ postLog # <<>>
    /\ postLog[Len(postLog)].run = run

C14_ReportBody ==
    ReportWritten =>
        /\ msgs = <<HeaderLine>> \o ExpectedBlocks(1)
        /\ postLog[Len(postLog)].written # 0
               => comments[postLog[Len(postLog)].written].body = msgs

\* C14 witness: a comment was created whose body holds two blocks, one of
\* them with a row whose before image is missing
C14_Witness ==
    /\ ReportWritten
    /\ postLog[Len(postLog)].written # 0
    /\ Len(msgs) = 3
    /\ \E b \in 2..3 : \E k \in 4..Len(msgs[b]) - 1 : msgs[b][k][3] = <<>>

\* C15: every delivery the listener took up, also one whose handler ends in
\* an uncaught error at whatever step, is answered, and once it is answered
\* the listener takes up the next delivery.
InRun == pc \notin {"Idle", "Done"}

AcceptsNext ==
    ENABLED Deliver(SignedHeader(github_secret, "p1"), "p1", "pull_request",
                    "synchronize", "alice")

C15_ListenerSurvives ==
    /\ [](InRun => <>(pc = "Done" /\ nresp = 1))
    /\ [](pc = "Done" => AcceptsNext)

\* C15 witness: a delivery was processed and answered 200 after the
\* delivery before it ended in an uncaught error
C15_Witness ==
    /\ run > 1 /\ prev.raised
    /\ pc = "Done" /\ response = 200 /\ ~raised
    /\ "compare" \in calls

\* C16: when compare answers with an empty result for a path, the step
\* uploads nothing and adds no block for it and goes on to the next path of
\* the list; the loop is left only after every path of the list was fetched.
SkippedEmpty(i) == iters[i].compared /\ iters[i].res = <<>>

C16_EmptyResultSkipsPath ==
    [][/\ (pc = "Comparing" /\ iters'[idx].res = <<>>)
            => /\ UNCHANGED <<DB, uploadLog, posted, msgs, scratch>>
               /\ "upload" \in calls' => "upload" \in calls
               /\ ~iters'[idx].block
               /\ idx' = idx + 1
               /\ pc' = IF idx < Len(icons_with_diff) THEN "Fetching" ELSE "Reporting"
       /\ pc' = "Reporting"
            => /\ Len(iters') = Len(icons_with_diff')
               /\ \A i \in DOMAIN iters' : iters'[i].compared \/ iters'[i].sb = 404
      ]_vars

\* C16 witness: the first of two paths was skipped on an empty result, the
\* second was fetched, compared and reported
C16_Witness ==
    /\ pc = "Done" /\ Len(iters) = 2
    /\ SkippedEmpty(1) /\ ~iters[1].block
    /\ iters[2].compared /\ iters[2].block
    /\ "create" \in calls

\* C17: a run starts only when no run is in progress and the delivery
\* before it has its response; a delivery gets one response, and after the
\* response nothing of that run calls out or writes to scratch storage.
Answered == req.kind = "webhook" => nresp = 1

WrittenByRun(f) ==
    /\ scratch[f] # None
    /\ \/ f \in PngFiles /\ prev.req.kind = "none"
       \/ f \in DmiFiles /\ scratch[f][1] = run

Returned_check_icons == pc = "Done" /\ ~raised /\ "fetch" \in calls

C18_NoScratchResidue ==
    (~DEBUG /\ Returned_check_icons) => \A f \in DmiFiles \cup PngFiles : ~WrittenByRun(f)

\* C19: whenever compare was called for a path, what it read for a side is
\* the content fetched with status 200 for that path and side in this run,
\* or the absent indicator (or there was no file to read); never content
\* staged for another path or by an earlier run.
OwnContent(i, side) == <<run, i, side>>

ReadsOwn(content, i, side) ==
    \/ content = None
    \/ Len(content) = 1
    \/ Len(content) = 3 /\ content = OwnContent(i, side)

C19_CompareReadsOwnFiles ==
    \A i \in DOMAIN iters :
        iters[i].compared =>
            /\ ReadsOwn(iters[i].read_a, i, "a")
            /\ ReadsOwn(iters[i].read_b, i, "b")
            /\ Len(iters[i].read_a) = 3 => iters[i].sa = 200
            /\ Len(iters[i].read_b) = 3 => iters[i].sb = 200

====
